---- MODULE Spec2Model ----
(***************************************************************************)
(* LS-8 emulator (project/ls8/cpu.js, project/ls8/ram.js).                 *)
(*                                                                         *)
(* The processor's fields, the RAM, the interval timer that drives tick()  *)
(* and the two console streams are the state.  One action arms the timer   *)
(* (startClock) and one action is a timer callback (tick).                 *)
(*                                                                         *)
(* JavaScript values.  Every value the program stores is a Number or       *)
(* undefined.  A value is a pair <<n, d>>:                                 *)
(*     d >= 1   the number n/d in lowest terms (d = 1: an integer)         *)
(*     <<0, 0>> undefined                                                  *)
(*     <<1, 0>> NaN                                                        *)
(* Numbers are exact rationals.  They stand for the doubles the engine     *)
(* computes: equal to them on the integers the runs below reach, and kept  *)
(* exact where a double would round a quotient of DIV.  The sign of zero   *)
(* is not kept.  +-Infinity is not represented: the only division of the   *)
(* program (alu DIV) refuses a divisor that === 0.                         *)
(***************************************************************************)
EXTENDS Integers, Sequences, FiniteSets, TLC

\* ------------------------------------------------------------------------
\* Bounds of the model
\* ------------------------------------------------------------------------
\* Timer callbacks per run.
MaxTicks == 8
\* Pre-tick snapshots kept for stating the claims.
HistLen == 2

\* ------------------------------------------------------------------------
\* Values
\* ------------------------------------------------------------------------
undefined == <<0, 0>>
NaN == <<1, 0>>
Num(i) == <<i, 1>>

IsNum(v) == v[2] > 0
IsInt(v) == v[2] = 1

Abs(i) == IF i < 0 THEN -i ELSE i

RECURSIVE Gcd(_, _)
Gcd(a, b) == IF b = 0 THEN a ELSE Gcd(b, a % b)

\* n/d, d # 0, in lowest terms with a positive denominator.
Norm(n, d) ==
    LET s == IF d < 0 THEN -1 ELSE 1
        g == Gcd(Abs(n), Abs(d))
    IN  <<(s * n) \div g, (s * d) \div g>>

\* Truncation towards zero of the number n/d.
Trunc(v) == IF v[1] >= 0 THEN v[1] \div v[2] ELSE -((-v[1]) \div v[2])

\* a + b, a - b, a * b, a / b, a % b on Number | undefined (ToNumber(undefined)
\* is NaN, and NaN is absorbing).
Plus(a, b) ==
    IF IsNum(a) /\ IsNum(b) THEN Norm(a[1] * b[2] + b[1] * a[2], a[2] * b[2]) ELSE NaN

Minus(a, b) ==
    IF IsNum(a) /\ IsNum(b) THEN Norm(a[1] * b[2] - b[1] * a[2], a[2] * b[2]) ELSE NaN

Times(a, b) ==
    IF IsNum(a) /\ IsNum(b) THEN Norm(a[1] * b[1], a[2] * b[2]) ELSE NaN

Divide(a, b) ==
    IF IsNum(a) /\ IsNum(b) /\ b[1] # 0 THEN Norm(a[1] * b[2], a[2] * b[1]) ELSE NaN

\* JavaScript %: the remainder has the sign of the dividend.
Remainder(a, b) ==
    IF IsNum(a) /\ IsNum(b) /\ b[1] # 0
    THEN Minus(a, Times(b, Num(Trunc(Divide(a, b)))))
    ELSE NaN

\* a === b: NaN is not equal to itself, undefined is.
StrictEquals(a, b) == a = b /\ a # NaN

\* ToInt32 of the bitwise operators: NaN and undefined become 0, a fraction
\* is truncated.  (The wrap modulo 2^32 is the identity on every integer the
\* model checker can represent.)
ToInt32(v) == IF IsNum(v) THEN Trunc(v) ELSE 0

\* Two's-complement bitwise operators on integers.
RECURSIVE AndInt(_, _)
AndInt(x, y) ==
    IF x = 0 \/ y = 0 THEN 0
    ELSE IF x = -1 THEN y
    ELSE IF y = -1 THEN x
    ELSE (x % 2) * (y % 2) + 2 * AndInt(x \div 2, y \div 2)

RECURSIVE OrInt(_, _)
OrInt(x, y) ==
    IF x = 0 THEN y
    ELSE IF y = 0 THEN x
    ELSE IF x = -1 \/ y = -1 THEN -1
    ELSE (IF x % 2 = 1 \/ y % 2 = 1 THEN 1 ELSE 0) + 2 * OrInt(x \div 2, y \div 2)

RECURSIVE XorInt(_, _)
XorInt(x, y) ==
    IF x = 0 THEN y
    ELSE IF y = 0 THEN x
    ELSE IF x = -1 THEN -y - 1
    ELSE IF y = -1 THEN -x - 1
    ELSE (IF x % 2 = y % 2 THEN 0 ELSE 1) + 2 * XorInt(x \div 2, y \div 2)

BitAnd(a, b) == Num(AndInt(ToInt32(a), ToInt32(b)))
BitOr(a, b) == Num(OrInt(ToInt32(a), ToInt32(b)))
BitXor(a, b) == Num(XorInt(ToInt32(a), ToInt32(b)))
BitNot(a) == Num(-ToInt32(a) - 1)
\* a >> k, k in 0..31
ShiftRight(a, k) == Num(ToInt32(a) \div (2 ^ k))

\* ------------------------------------------------------------------------
\* Instructions (cpu.js lines 9-33)
\* ------------------------------------------------------------------------
HLT == 1
ADD == 179
AND == 179
CALL == 72
CMP == 160
DEC == 121
DIV == 171
INC == 120
MOD == 172
MUL == 170
NOT == 112
NOP == 0
LDI == 153
OR == 177
PRN == 67
PUSH == 77
POP == 76
RET == 9
SUB == 169
XOR == 178

SP == 7
FL_EQ == 1
FL_GT == 2
FL_LT == 4

\* ------------------------------------------------------------------------
\* Objects: property get and set on an Array (reg, mem).  A key that was
\* never stored reads undefined; a store to a new key creates it.
\* ------------------------------------------------------------------------
Get(obj, key) == IF key \in DOMAIN obj THEN obj[key] ELSE undefined

Put(obj, key, value) ==
    IF key \in DOMAIN obj THEN [obj EXCEPT ![key] = value] ELSE (key :> value) @@ obj

\* new Array(size).fill(0)
ArrayFill0(size) == [k \in {Num(i) : i \in 0 .. size - 1} |-> Num(0)]

\* ------------------------------------------------------------------------
\* RAM (ram.js)
\* ------------------------------------------------------------------------
\* this.mem = new Array(size); this.mem.fill(0).  The array is kept as its
\* size and the cells that were stored into: a cell 0..size-1 that was never
\* stored into holds the fill value 0.
RAM(size) == [size |-> size, cells |-> [k \in {} |-> undefined]]

RAM_write(mem, MAR, MDR) == [mem EXCEPT !.cells = Put(mem.cells, MAR, MDR)]

RAM_read(mem, MAR) ==
    IF MAR \in DOMAIN mem.cells THEN mem.cells[MAR]
    ELSE IF IsInt(MAR) /\ MAR[1] >= 0 /\ MAR[1] < mem.size THEN Num(0)
    ELSE undefined

\* ------------------------------------------------------------------------
\* CPU (cpu.js).  A processor state s is a record
\*   reg     the array this.reg (keys 0..7, and any key a store created)
\*   PC, IR, FL   this.reg.PC, this.reg.IR, this.reg.FL
\*   mem     this.ram.mem (see RAM)
\*   clock   "unset": this.clock was never assigned; "running": the
\*           interval is armed; "cleared": clearInterval was applied to it
\*   stdout  the values passed to console.log, in order
\*   stderr  the messages passed to console.error, in order; a message is
\*           <<text, value>>, the string text + value (value undefined
\*           when the text stands alone)
\* A handler yields [s |-> the state it leaves, ret |-> what it returns].
\* ------------------------------------------------------------------------
Return(s, ret) == [s |-> s, ret |-> ret]

\* constructor(ram)
CPU(ram) ==
    [ reg    |-> Put(ArrayFill0(8), Num(SP), Num(244)),
      PC     |-> Num(0),
      IR     |-> Num(0),
      FL     |-> Num(0),
      mem    |-> ram,
      clock  |-> "unset",
      stdout |-> <<>>,
      stderr |-> <<>> ]

\* The assignments of setupBranchTable, in order.
BranchTableAssignments ==
    << <<HLT, "HLT">>, <<ADD, "ADD">>, <<AND, "AND">>, <<CALL, "CALL">>,
       <<CMP, "CMP">>, <<DEC, "DEC">>, <<DIV, "DIV">>, <<INC, "INC">>,
       <<MOD, "MOD">>, <<MUL, "MUL">>, <<NOT, "NOT">>, <<NOP, "NOP">>,
       <<LDI, "LDI">>, <<OR, "OR">>, <<PRN, "PRN">>, <<PUSH, "PUSH">>,
       <<POP, "POP">>, <<RET, "RET">>, <<SUB, "SUB">>, <<XOR, "XOR">> >>

\* Mutant of setupBranchTable: the first assignment to a key is kept.
setupBranchTable_FirstWins ==
    LET A == BranchTableAssignments
        First(k) == CHOOSE i \in 1 .. Len(A) :
                        /\ A[i][1] = k
                        /\ \A j \in 1 .. Len(A) : A[j][1] = k => i <= j
    IN  [k \in {Num(A[i][1]) : i \in 1 .. Len(A)} |-> A[First(k[1])][2]]

\* bt after the assignments: a later assignment to a key replaces an earlier.
setupBranchTable ==
    LET A == BranchTableAssignments
        Last(k) == CHOOSE i \in 1 .. Len(A) :
                       /\ A[i][1] = k
                       /\ \A j \in 1 .. Len(A) : A[j][1] = k => j <= i
    IN  [k \in {Num(A[i][1]) : i \in 1 .. Len(A)} |-> A[Last(k[1])][2]]

branchTable == setupBranchTable

\* this.branchTable[IR]: the handler's name, or "undefined"
Handler(IR) == IF IR \in DOMAIN branchTable THEN branchTable[IR] ELSE "undefined"

\* poke(address, value)
poke(s, address, value) == [s EXCEPT !.mem = RAM_write(s.mem, address, value)]

\* Mutant of stopClock: the interval is left armed.
stopClock_LeavesArmed(s) == s

\* stopClock(): clearInterval(this.clock)
stopClock(s) == [s EXCEPT !.clock = IF s.clock = "running" THEN "cleared" ELSE s.clock]

\* Mutant of setFlag: the flag is set, never cleared.
setFlag_NeverClears(s, flag, value) ==
    IF value = TRUE THEN [s EXCEPT !.FL = BitOr(s.FL, Num(flag))] ELSE s

\* Mutant of setFlag: clearing complements the masked flag, ~(FL & flag).
setFlag_ClearComplements(s, flag, value) ==
    IF value = TRUE
    THEN [s EXCEPT !.FL = BitOr(s.FL, Num(flag))]
    ELSE [s EXCEPT !.FL = BitNot(BitAnd(s.FL, Num(flag)))]

\* setFlag(flag, value)
setFlag(s, flag, value) ==
    IF value = TRUE
    THEN [s EXCEPT !.FL = BitOr(s.FL, Num(flag))]
    ELSE [s EXCEPT !.FL = BitAnd(s.FL, BitNot(Num(flag)))]

ConsoleError(s, text, value) == [s EXCEPT !.stderr = Append(s.stderr, <<text, value>>)]

ConsoleLog(s, value) == [s EXCEPT !.stdout = Append(s.stdout, value)]

SetReg(s, r, value) == [s EXCEPT !.reg = Put(s.reg, r, value)]

\* Mutant of alu: DIV and MOD do not test the divisor.
alu_DivisorUnchecked(s, op, regA, regB) ==
    LET a == Get(s.reg, regA)
        b == Get(s.reg, regB)
    IN  CASE op = "ADD" -> SetReg(s, regA, Plus(a, b))
          [] op = "AND" -> SetReg(s, regA, BitAnd(a, b))
          [] op = "OR"  -> SetReg(s, regA, BitOr(a, b))
          [] op = "NOT" -> SetReg(s, regA, BitNot(a))
          [] op = "XOR" -> SetReg(s, regA, BitXor(a, b))
          [] op = "DEC" -> SetReg(s, regA, Minus(a, Num(1)))
          [] op = "DIV" -> SetReg(s, regA, Divide(a, b))
          [] op = "INC" -> SetReg(s, regA, Plus(a, Num(1)))
          [] op = "MOD" -> SetReg(s, regA, Remainder(a, b))
          [] op = "MUL" -> SetReg(s, regA, Times(a, b))
          [] op = "SUB" -> SetReg(s, regA, Minus(a, b))
          [] op = "CMP" -> setFlag(s, FL_EQ, StrictEquals(a, b))
          [] OTHER -> s

\* Mutant of alu: SUB also sets the Equal flag from its result.
alu_SubSetsFlag(s, op, regA, regB) ==
    LET a == Get(s.reg, regA)
        b == Get(s.reg, regB)
        DivByZero == stopClock(ConsoleError(s, "2nd param could not be 0", undefined))
    IN  CASE op = "ADD" -> SetReg(s, regA, Plus(a, b))
          [] op = "AND" -> SetReg(s, regA, BitAnd(a, b))
          [] op = "OR"  -> SetReg(s, regA, BitOr(a, b))
          [] op = "NOT" -> SetReg(s, regA, BitNot(a))
          [] op = "XOR" -> SetReg(s, regA, BitXor(a, b))
          [] op = "DEC" -> SetReg(s, regA, Minus(a, Num(1)))
          [] op = "DIV" -> IF StrictEquals(b, Num(0)) THEN DivByZero
                           ELSE SetReg(s, regA, Divide(a, b))
          [] op = "INC" -> SetReg(s, regA, Plus(a, Num(1)))
          [] op = "MOD" -> IF StrictEquals(b, Num(0)) THEN DivByZero
                           ELSE SetReg(s, regA, Remainder(a, b))
          [] op = "MUL" -> SetReg(s, regA, Times(a, b))
          [] op = "SUB" -> setFlag(SetReg(s, regA, Minus(a, b)), FL_EQ,
                                   StrictEquals(Minus(a, b), Num(0)))
          [] op = "CMP" -> setFlag(s, FL_EQ, StrictEquals(a, b))
          [] OTHER -> s

\* Mutant of alu: the arithmetic results are reduced to 8 bits (& 0xFF).
alu_Wraps8(s, op, regA, regB) ==
    LET a == Get(s.reg, regA)
        b == Get(s.reg, regB)
        DivByZero == stopClock(ConsoleError(s, "2nd param could not be 0", undefined))
        Byte(v) == Num(ToInt32(v) % 256)
    IN  CASE op = "ADD" -> SetReg(s, regA, Byte(Plus(a, b)))
          [] op = "AND" -> SetReg(s, regA, BitAnd(a, b))
          [] op = "OR"  -> SetReg(s, regA, BitOr(a, b))
          [] op = "NOT" -> SetReg(s, regA, BitNot(a))
          [] op = "XOR" -> SetReg(s, regA, BitXor(a, b))
          [] op = "DEC" -> SetReg(s, regA, Byte(Minus(a, Num(1))))
          [] op = "DIV" -> IF StrictEquals(b, Num(0)) THEN DivByZero
                           ELSE SetReg(s, regA, Divide(a, b))
          [] op = "INC" -> SetReg(s, regA, Byte(Plus(a, Num(1))))
          [] op = "MOD" -> IF StrictEquals(b, Num(0)) THEN DivByZero
                           ELSE SetReg(s, regA, Remainder(a, b))
          [] op = "MUL" -> SetReg(s, regA, Byte(Times(a, b)))
          [] op = "SUB" -> SetReg(s, regA, Byte(Minus(a, b)))
          [] op = "CMP" -> setFlag(s, FL_EQ, StrictEquals(a, b))
          [] OTHER -> s

\* alu(op, regA, regB)
alu(s, op, regA, regB) ==
    LET a == Get(s.reg, regA)
        b == Get(s.reg, regB)
        DivByZero == stopClock(ConsoleError(s, "2nd param could not be 0", undefined))
    IN  CASE op = "ADD" -> SetReg(s, regA, Plus(a, b))
          [] op = "AND" -> SetReg(s, regA, BitAnd(a, b))
          [] op = "OR"  -> SetReg(s, regA, BitOr(a, b))
          [] op = "NOT" -> SetReg(s, regA, BitNot(a))
          [] op = "XOR" -> SetReg(s, regA, BitXor(a, b))
          [] op = "DEC" -> SetReg(s, regA, Minus(a, Num(1)))
          [] op = "DIV" -> IF StrictEquals(b, Num(0)) THEN DivByZero
                           ELSE SetReg(s, regA, Divide(a, b))
          [] op = "INC" -> SetReg(s, regA, Plus(a, Num(1)))
          [] op = "MOD" -> IF StrictEquals(b, Num(0)) THEN DivByZero
                           ELSE SetReg(s, regA, Remainder(a, b))
          [] op = "MUL" -> SetReg(s, regA, Times(a, b))
          [] op = "SUB" -> SetReg(s, regA, Minus(a, b))
          [] op = "CMP" -> setFlag(s, FL_EQ, StrictEquals(a, b))
          [] OTHER -> s

\* Mutant of pushHelper: the value is written before SP is moved.
pushHelper_WritesFirst(s, value) ==
    LET s1 == [s EXCEPT !.mem = RAM_write(s.mem, Get(s.reg, Num(SP)), value)]
    IN  SetReg(s1, Num(SP), Minus(Get(s1.reg, Num(SP)), Num(1)))

\* pushHelper(value)
pushHelper(s, value) ==
    LET s1 == SetReg(s, Num(SP), Minus(Get(s.reg, Num(SP)), Num(1)))
    IN  [s1 EXCEPT !.mem = RAM_write(s1.mem, Get(s1.reg, Num(SP)), value)]

\* Mutant of popHelper: SP is moved before the read.
popHelper_MovesFirst(s) ==
    LET s1 == SetReg(s, Num(SP), Minus(Get(s.reg, Num(SP)), Num(1)))
    IN  Return(s1, RAM_read(s1.mem, Get(s1.reg, Num(SP))))

\* popHelper()
popHelper(s) ==
    LET value == RAM_read(s.mem, Get(s.reg, Num(SP)))
    IN  Return(SetReg(s, Num(SP), Minus(Get(s.reg, Num(SP)), Num(1))), value)

\* Mutant of CPU_HLT: the clock is not stopped.
CPU_HLT_KeepsRunning(s) == Return(s, undefined)

\* Mutant of CPU_PRN: the register's index is logged, not its value.
CPU_PRN_LogsIndex(s, regA) == Return(ConsoleLog(s, regA), undefined)

\* The instruction handlers.  A handler that declares one parameter, or none,
\* does not see the operands beyond it; NOT, DEC and INC pass alu no regB.
CPU_HLT(s) == Return(stopClock(s), undefined)
CPU_NOP(s) == Return(s, undefined)
CPU_LDI(s, regNum, value) == Return(SetReg(s, regNum, value), undefined)
CPU_PRN(s, regA) == Return(ConsoleLog(s, Get(s.reg, regA)), undefined)
CPU_CALL(s, regNum) ==
    LET s1 == pushHelper(s, Plus(s.PC, Num(2))) IN Return(s1, Get(s1.reg, regNum))
CPU_RET(s) == LET p == popHelper(s) IN Return(p.s, p.ret)
CPU_POP(s, regNum) == LET p == popHelper(s) IN Return(SetReg(p.s, regNum, p.ret), undefined)
CPU_PUSH(s, regNum) == Return(pushHelper(s, Get(s.reg, regNum)), undefined)

\* handler.call(this, operandA, operandB)
Call(handler, s, operandA, operandB) ==
    CASE handler = "HLT"  -> CPU_HLT(s)
      [] handler = "NOP"  -> CPU_NOP(s)
      [] handler = "LDI"  -> CPU_LDI(s, operandA, operandB)
      [] handler = "PRN"  -> CPU_PRN(s, operandA)
      [] handler = "CALL" -> CPU_CALL(s, operandA)
      [] handler = "RET"  -> CPU_RET(s)
      [] handler = "POP"  -> CPU_POP(s, operandA)
      [] handler = "PUSH" -> CPU_PUSH(s, operandA)
      [] handler \in {"NOT", "DEC", "INC"} -> Return(alu(s, handler, operandA, undefined), undefined)
      [] OTHER -> Return(alu(s, handler, operandA, operandB), undefined)

\* Mutant of tick: PC advances by the operand count alone.
tick_SkipsOperandsOnly(s) ==
    LET s1 == [s EXCEPT !.IR = RAM_read(s.mem, s.PC)]
        handler == Handler(s1.IR)
        operandA == RAM_read(s1.mem, Plus(s1.PC, Num(1)))
        operandB == RAM_read(s1.mem, Plus(s1.PC, Num(2)))
        r == Call(handler, s1, operandA, operandB)
        nextPC == r.ret
    IN  IF handler = "undefined"
        THEN stopClock(ConsoleError(s1, "Unknown opcode", s1.IR))
        ELSE IF nextPC = undefined
        THEN [r.s EXCEPT !.PC = Plus(r.s.PC, BitAnd(ShiftRight(r.s.IR, 6), Num(3)))]
        ELSE [r.s EXCEPT !.PC = nextPC]

\* Mutant of tick: a falsy nextPC (0 included) takes the default advance.
tick_FalsyNextPC(s) ==
    LET s1 == [s EXCEPT !.IR = RAM_read(s.mem, s.PC)]
        handler == Handler(s1.IR)
        operandA == RAM_read(s1.mem, Plus(s1.PC, Num(1)))
        operandB == RAM_read(s1.mem, Plus(s1.PC, Num(2)))
        r == Call(handler, s1, operandA, operandB)
        nextPC == r.ret
    IN  IF handler = "undefined"
        THEN stopClock(ConsoleError(s1, "Unknown opcode", s1.IR))
        ELSE IF nextPC \in {undefined, NaN, Num(0)}
        THEN [r.s EXCEPT !.PC = Plus(r.s.PC, Plus(BitAnd(ShiftRight(r.s.IR, 6), Num(3)), Num(1)))]
        ELSE [r.s EXCEPT !.PC = nextPC]

\* Mutant of tick: an unknown opcode is skipped (PC moves past it).
tick_SkipsUnknown(s) ==
    LET s1 == [s EXCEPT !.IR = RAM_read(s.mem, s.PC)]
        handler == Handler(s1.IR)
        operandA == RAM_read(s1.mem, Plus(s1.PC, Num(1)))
        operandB == RAM_read(s1.mem, Plus(s1.PC, Num(2)))
        r == Call(handler, s1, operandA, operandB)
        nextPC == r.ret
    IN  IF handler = "undefined"
        THEN [stopClock(ConsoleError(s1, "Unknown opcode", s1.IR)) EXCEPT
                 !.PC = Plus(s1.PC, Num(1))]
        ELSE IF nextPC = undefined
        THEN [r.s EXCEPT !.PC = Plus(r.s.PC, Plus(BitAnd(ShiftRight(r.s.IR, 6), Num(3)), Num(1)))]
        ELSE [r.s EXCEPT !.PC = nextPC]

\* Mutant of tick: the advanced PC is kept to 8 bits.
tick_PCWraps8(s) ==
    LET s1 == [s EXCEPT !.IR = RAM_read(s.mem, s.PC)]
        handler == Handler(s1.IR)
        operandA == RAM_read(s1.mem, Plus(s1.PC, Num(1)))
        operandB == RAM_read(s1.mem, Plus(s1.PC, Num(2)))
        r == Call(handler, s1, operandA, operandB)
        nextPC == r.ret
    IN  IF handler = "undefined"
        THEN stopClock(ConsoleError(s1, "Unknown opcode", s1.IR))
        ELSE IF nextPC = undefined
        THEN [r.s EXCEPT !.PC =
                 BitAnd(Plus(r.s.PC, Plus(BitAnd(ShiftRight(r.s.IR, 6), Num(3)), Num(1))),
                        Num(255))]
        ELSE [r.s EXCEPT !.PC = nextPC]

\* tick()
tick(s) ==
    LET s1 == [s EXCEPT !.IR = RAM_read(s.mem, s.PC)]
        handler == Handler(s1.IR)
        operandA == RAM_read(s1.mem, Plus(s1.PC, Num(1)))
        operandB == RAM_read(s1.mem, Plus(s1.PC, Num(2)))
        r == Call(handler, s1, operandA, operandB)
        nextPC == r.ret
    IN  IF handler = "undefined"
        THEN stopClock(ConsoleError(s1, "Unknown opcode", s1.IR))
        ELSE IF nextPC = undefined
        THEN [r.s EXCEPT !.PC = Plus(r.s.PC, Plus(BitAnd(ShiftRight(r.s.IR, 6), Num(3)), Num(1)))]
        ELSE [r.s EXCEPT !.PC = nextPC]

\* startClock(): this.clock = setInterval(() => tick(), 1)
startClock(s) == [s EXCEPT !.clock = "running"]

\* ------------------------------------------------------------------------
\* Programs.  The loader (not part of cpu.js) pokes the bytes of an object
\* file into RAM from address 0 and then calls startClock once.
\* ------------------------------------------------------------------------
\* new RAM(RamSize)
RamSize == 256

RECURSIVE Load(_, _, _)
Load(s, bytes, address) ==
    IF bytes = <<>> THEN s
    ELSE Load(poke(s, Num(address), Num(Head(bytes))), Tail(bytes), address + 1)

\* An instruction's bytes: the opcode and as many operands as its top two
\* bits declare (a third declared operand is encoded as 0).
Encode(op, a, b) == SubSeq(<<op, a, b, 0>>, 1, ((op \div 64) % 4) + 1)

Opcodes == {BranchTableAssignments[i][1] : i \in 1 .. Len(BranchTableAssignments)}
\* Bytes without a handler: operand counts 3, 0 and 1.
UnknownOpcodes == {255, 2, 80}
\* Operand bytes: registers 0, 1, SP, and an index outside the register file.
Operands == {0, 1, 7, 8}
\* Values loaded into R0 and R1 before the instruction under test.
Loaded == {0, 3, 200}

MulProgram == <<LDI, 0, 8, LDI, 1, 9, MUL, 0, 1, PRN, 0, HLT>>

StackProgram == <<LDI, 0, 5, PUSH, 0, LDI, 0, 0, POP, 0, PRN, 0, HLT>>

\* LDI R0,x; LDI R1,y; one instruction; HLT
OneInstruction ==
    { <<LDI, 0, x, LDI, 1, y>> \o Encode(op, a, b) \o <<HLT>> :
        x \in Loaded, y \in Loaded, op \in Opcodes \cup UnknownOpcodes,
        a \in Operands, b \in Operands }

\* LDI R7,sp; LDI Rr,v; PUSH Rr; POP Rr; PRN Rr; HLT
PushPop ==
    { <<LDI, 7, sp, LDI, r, v, PUSH, r, POP, r, PRN, r, HLT>> :
        sp \in {244, 16, 0}, r \in 0 .. 6, v \in {0, 5, 255} }

\* 0: LDI R0,6  3: CALL R0  5: HLT  6: body; RET
Bodies ==
    { <<>>, <<NOP>>, <<INC, 1>>, <<PRN, 0>>, <<PUSH, 0, POP, 0>>, <<PUSH, 0, POP, 1>>,
      <<PUSH, 1, PUSH, 0, POP, 0, POP, 1>>, <<CMP, 0, 0>>, <<PUSH, 0>>, <<POP, 0>> }

CallRet == { <<LDI, 0, 6, CALL, 0, HLT>> \o body \o <<RET>> : body \in Bodies }

\* 0: LDI R0,9  3: LDI R1,12  6: CALL R0  8: HLT  9: CALL R1  11: RET  12: body; RET
NestedCallRet ==
    { <<LDI, 0, 9, LDI, 1, 12, CALL, 0, HLT, CALL, 1, RET>> \o body \o <<RET>> :
        body \in {<<>>, <<NOP>>, <<PUSH, 0, POP, 0>>} }

\* LDI R0,x; LDI R1,y; CMP Ra,Rb; CMP Rc,Rd; HLT
CmpTwice ==
    { <<LDI, 0, x, LDI, 1, y, CMP, a, b, CMP, c, d, HLT>> :
        x \in Loaded, y \in Loaded, a \in {0, 1}, b \in {0, 1}, c \in {0, 1}, d \in {0, 1} }

\* CMP R0,R0 (sets the Equal flag); one instruction; HLT
FlagThenInstruction ==
    { <<CMP, 0, 0>> \o Encode(op, a, b) \o <<HLT>> :
        op \in Opcodes \cup UnknownOpcodes, a \in Operands, b \in Operands }

\* Programs without HLT: execution runs on through the zero-filled memory
\* (0 is NOP).  The last one stores the PUSH opcode into cell 256, one past
\* the end of a 256-byte RAM.
NoHalt ==
    { <<NOP>>,
      <<LDI, 0, 5, PRN, 0>>,
      <<LDI, 0, PUSH, LDI, 7, 255, INC, 7, INC, 7, PUSH, 0>> }

Programs == {MulProgram, StackProgram} \cup OneInstruction \cup PushPop
            \cup CallRet \cup NestedCallRet \cup CmpTwice \cup FlagThenInstruction
            \cup NoHalt

\* ------------------------------------------------------------------------
\* State
\* ------------------------------------------------------------------------
VARIABLES
    reg, PC, IR, FL,    \* this.reg and its properties PC, IR, FL
    mem,                \* this.ram.mem
    clock,              \* the interval behind this.clock
    stdout, stderr,     \* console.log / console.error
    program,            \* the object file that was loaded (never changes)
    ticks,              \* timer callbacks so far
    hist,               \* the processor states before the last ticks, latest first
    frames,             \* open CALLs and PUSHes, innermost last
    matched,            \* the CALL frame closed by the last tick, if it was a RET
    call                \* the direct call alu(op, regA, regB) made last, if any

cpuvars == <<reg, PC, IR, FL, mem>>
vars == <<reg, PC, IR, FL, mem, clock, stdout, stderr, program, ticks, hist, frames, matched,
         call>>

\* The processor state as a record, and back.
Cur ==
    [ reg |-> reg, PC |-> PC, IR |-> IR, FL |-> FL, mem |-> mem,
      clock |-> clock, stdout |-> stdout, stderr |-> stderr ]

Becomes(s) ==
    /\ reg' = s.reg
    /\ PC' = s.PC
    /\ IR' = s.IR
    /\ FL' = s.FL
    /\ mem' = s.mem
    /\ clock' = s.clock
    /\ stdout' = s.stdout
    /\ stderr' = s.stderr

\* What a tick from state s fetches.
Fetched(s) == RAM_read(s.mem, s.PC)
Instr(s) == Handler(Fetched(s))
OperandA(s) == RAM_read(s.mem, Plus(s.PC, Num(1)))
OperandB(s) == RAM_read(s.mem, Plus(s.PC, Num(2)))

\* Bookkeeping of calls: a frame is opened by CALL and by PUSH and closed by
\* the RET or POP that finds it innermost.  A frame stays ok while every stack
\* operation since it was opened was balanced and no instruction other than
\* PUSH, POP, CALL and RET stored into R7.
NoFrame == [kind |-> "none", pc |-> undefined, sp |-> undefined, ok |-> FALSE]
Frame(kind, s) == [kind |-> kind, pc |-> s.PC, sp |-> Get(s.reg, Num(SP)), ok |-> TRUE]
Spoil(fs) == [i \in 1 .. Len(fs) |-> [fs[i] EXCEPT !.ok = FALSE]]
Top(fs) == IF fs = <<>> THEN NoFrame ELSE fs[Len(fs)]
Pop(fs) == SubSeq(fs, 1, Len(fs) - 1)

StoresR7(s) ==
    /\ OperandA(s) = Num(SP)
    /\ Instr(s) \notin {"undefined", "HLT", "NOP", "PRN", "CALL", "RET", "PUSH", "CMP"}

FramesAfter(fs, s) ==
    CASE Instr(s) = "CALL" -> Append(fs, Frame("call", s))
      [] Instr(s) = "PUSH" -> Append(fs, Frame("push", s))
      [] Instr(s) = "POP" ->
            IF Top(fs).kind = "push" /\ ~StoresR7(s) THEN Pop(fs) ELSE Spoil(fs)
      [] Instr(s) = "RET" -> IF Top(fs).kind = "call" THEN Pop(fs) ELSE Spoil(fs)
      [] OTHER -> IF StoresR7(s) THEN Spoil(fs) ELSE fs

MatchedAfter(fs, s) ==
    IF Instr(s) = "RET" /\ Top(fs).kind = "call" THEN Top(fs) ELSE NoFrame

\* No direct call of alu was made.
NoCall == [op |-> "none", regA |-> undefined, regB |-> undefined]

\* ------------------------------------------------------------------------
\* Behaviour
\* ------------------------------------------------------------------------
Init ==
    /\ program \in Programs
    /\ LET s == Load(CPU(RAM(RamSize)), program, 0)
       IN  /\ reg = s.reg
           /\ PC = s.PC
           /\ IR = s.IR
           /\ FL = s.FL
           /\ mem = s.mem
           /\ clock = s.clock
           /\ stdout = s.stdout
           /\ stderr = s.stderr
    /\ ticks = 0
    /\ hist = <<>>
    /\ frames = <<>>
    /\ matched = NoFrame
    /\ call = NoCall

\* The loader starts the clock, once.
StartClock ==
    /\ clock = "unset"
    /\ Becomes(startClock(Cur))
    /\ UNCHANGED <<program, ticks, hist, frames, matched, call>>

\* The interval fires: one call of tick().
Tick ==
    /\ clock = "running"
    /\ ticks < MaxTicks
    /\ Becomes(tick(Cur))
    /\ ticks' = ticks + 1
    /\ hist' = SubSeq(<<Cur>> \o hist, 1, IF Len(hist) + 1 < HistLen THEN Len(hist) + 1 ELSE HistLen)
    /\ frames' = FramesAfter(frames, Cur)
    /\ matched' = MatchedAfter(frames, Cur)
    /\ UNCHANGED <<program, call>>

Next == StartClock \/ Tick

Spec == Init /\ [][Next]_vars

\* ------------------------------------------------------------------------
\* Runs without CALL and RET, to their end: the interval keeps firing until
\* it is cleared (setInterval), and a run is followed up to the first CALL or
\* RET it would execute.
\* ------------------------------------------------------------------------
\* The interval timer fires while it is set.
TimerFires ==
    /\ clock = "running"
    /\ Instr(Cur) \notin {"CALL", "RET"}
    /\ ticks' = ticks + 1

LiveTick ==
    /\ TimerFires
    /\ Becomes(tick(Cur))
    /\ hist' = SubSeq(<<Cur>> \o hist, 1, IF Len(hist) + 1 < HistLen THEN Len(hist) + 1 ELSE HistLen)
    /\ frames' = FramesAfter(frames, Cur)
    /\ matched' = MatchedAfter(frames, Cur)
    /\ UNCHANGED <<program, call>>

LiveNext == StartClock \/ LiveTick

\* Every step that counts a tick is a LiveTick step and LiveTick is enabled
\* exactly when TimerFires is, so the second condition is weak fairness of
\* LiveTick.
LiveSpec == Init /\ [][LiveNext]_vars /\ WF_vars(StartClock) /\ WF_ticks(TimerFires)

\* ------------------------------------------------------------------------
\* The ALU on its own: alu(op, regA, regB) called once on a processor whose
\* R0 and R1 hold bytes (as LDI leaves them).  ADD is reached this way only:
\* no opcode dispatches to it.
\* ------------------------------------------------------------------------
AluOps == {"ADD", "AND", "OR", "NOT", "XOR", "DEC", "DIV", "INC", "MOD", "MUL", "SUB", "CMP"}
AluValues == {0, 1, 100, 200, 255}

AluInit ==
    /\ program = <<>>
    /\ \E x \in AluValues, y \in AluValues :
         LET s0 == CPU(RAM(RamSize))
             s == SetReg(SetReg(s0, Num(0), Num(x)), Num(1), Num(y))
         IN  /\ reg = s.reg
             /\ PC = s.PC
             /\ IR = s.IR
             /\ FL = s.FL
             /\ mem = s.mem
             /\ clock = s.clock
             /\ stdout = s.stdout
             /\ stderr = s.stderr
    /\ ticks = 0
    /\ hist = <<>>
    /\ frames = <<>>
    /\ matched = NoFrame
    /\ call = NoCall

AluCall ==
    /\ call = NoCall
    /\ \E op \in AluOps, a \in {0, 1}, b \in {0, 1} :
         /\ Becomes(alu(Cur, op, Num(a), Num(b)))
         /\ call' = [op |-> op, regA |-> Num(a), regB |-> Num(b)]
    /\ hist' = <<Cur>>
    /\ UNCHANGED <<program, ticks, frames, matched>>

AluNext == AluCall

AluSpec == AluInit /\ [][AluNext]_vars

\* ------------------------------------------------------------------------
\* Properties
\* ------------------------------------------------------------------------
Regs == {Num(r) : r \in 0 .. 7}

\* The last tick has run; Prev is the processor state it started from.
Ticked == hist # <<>>
Prev == hist[1]
\* The last tick dispatched handler h.
Executed(h) == Ticked /\ Instr(Prev) = h
\* The operand count bits 6-7 of an opcode byte declare.
OperandCount(op) == (op \div 64) % 4
\* Once the run has stopped, nothing the processor owns changes.
Frozen == UNCHANGED <<reg, PC, IR, FL, mem, stdout, stderr, ticks>>

\* C1: PUSH r immediately followed by POP r, r in 0..6, leaves reg[r] and SP
\* (reg[7]) as they were before the PUSH.
C1_PushPopRoundTrip ==
    (/\ Len(hist) >= 2
     /\ Instr(hist[2]) = "PUSH"
     /\ Instr(hist[1]) = "POP"
     /\ OperandA(hist[2]) \in Regs \ {Num(SP)}
     /\ OperandA(hist[1]) = OperandA(hist[2]))
    => /\ Get(reg, OperandA(hist[2])) = Get(hist[2].reg, OperandA(hist[2]))
       /\ Get(reg, Num(SP)) = Get(hist[2].reg, Num(SP))

\* C2: the RET that matches a CALL executed at p (everything in between
\* balanced) leaves PC = p + 2.
C2_RetResumesAfterCall ==
    (matched.kind = "call" /\ matched.ok) => PC = Plus(matched.pc, Num(2))

\* C3: DIV or MOD with reg[regB] = 0 (regA, regB in 0..7, regA = regB
\* included) leaves reg[regA] as it was, reports an error and stops the
\* clock, and no later tick runs.
DivModByZero ==
    /\ Ticked
    /\ Instr(Prev) \in {"DIV", "MOD"}
    /\ OperandA(Prev) \in Regs
    /\ OperandB(Prev) \in Regs
    /\ Get(Prev.reg, OperandB(Prev)) = Num(0)

C3_DivModByZeroHalts ==
    /\ [](DivModByZero =>
            /\ Get(reg, OperandA(Prev)) = Get(Prev.reg, OperandA(Prev))
            /\ stderr = Append(Prev.stderr, <<"2nd param could not be 0", undefined>>)
            /\ clock = "cleared")
    /\ [][DivModByZero => Frozen]_vars

C3_Witness ==
    /\ DivModByZero
    /\ Instr(Prev) = "DIV"
    /\ OperandA(Prev) = OperandB(Prev)
    /\ clock = "cleared"

\* C4: a tick of a clock-driven run that fetches a byte without a handler
\* reports an error that carries the byte and stops the clock, and no later
\* tick runs.
C4_UnknownOpcodeHalts ==
    /\ [](Executed("undefined") =>
            /\ stderr = Append(Prev.stderr, <<"Unknown opcode", Fetched(Prev)>>)
            /\ clock = "cleared")
    /\ [][Executed("undefined") => Frozen]_vars

C4_Witness ==
    /\ Executed("undefined")
    /\ Fetched(Prev) = Num(255)
    /\ stderr = <<<<"Unknown opcode", Num(255)>>>>

\* C5: once a tick has dispatched HLT, no later tick runs and registers, PC,
\* FL and memory never change again.
C5_NothingAfterHLT ==
    /\ [](Executed("HLT") => clock = "cleared")
    /\ [][Executed("HLT") => Frozen]_vars

C5_Witness == Executed("HLT") /\ clock = "cleared" /\ ticks < MaxTicks

\* C6: a tick that executes an opcode of the dispatch table other than CALL
\* and RET leaves PC = its value before the fetch + ((opcode >> 6) & 3) + 1.
C6_PCAdvance ==
    (Ticked /\ Instr(Prev) \notin {"undefined", "CALL", "RET"})
    => PC = Plus(Prev.PC, Num(OperandCount(Fetched(Prev)[1]) + 1))

C6_Witness ==
    /\ Executed("DIV")
    /\ DivModByZero
    /\ PC = Plus(Prev.PC, Num(3))

\* C7: after CMP regA regB the Equal flag (bit 0 of FL) is 1 iff
\* reg[regA] === reg[regB], whatever it was before, and no register changed.
EqualFlag(fl) == BitAnd(fl, Num(FL_EQ)) = Num(FL_EQ)

C7_CmpSetsEqual ==
    (Executed("CMP") /\ OperandA(Prev) \in Regs /\ OperandB(Prev) \in Regs)
    => /\ EqualFlag(FL) <=>
            StrictEquals(Get(Prev.reg, OperandA(Prev)), Get(Prev.reg, OperandB(Prev)))
       /\ reg = Prev.reg

\* CMP cleared a flag that was set; the tick before it was a CMP that set it.
C7_Witness ==
    /\ Len(hist) >= 2
    /\ Executed("CMP")
    /\ Instr(hist[2]) = "CMP"
    /\ ~EqualFlag(hist[2].FL)
    /\ EqualFlag(Prev.FL)
    /\ ~EqualFlag(FL)
    /\ Get(Prev.reg, OperandA(Prev)) # Get(Prev.reg, OperandB(Prev))

\* C8 (as stated): opcode 0xB3 runs the ADD handler: reg[a] := reg[a] + reg[b].
C8_AddWins ==
    (Ticked /\ Fetched(Prev) = Num(179) /\ OperandA(Prev) \in Regs /\ OperandB(Prev) \in Regs)
    => /\ Instr(Prev) = "ADD"
       /\ Get(reg, OperandA(Prev)) =
            Plus(Get(Prev.reg, OperandA(Prev)), Get(Prev.reg, OperandB(Prev)))

\* C8 (amended): opcode 0xB3 runs the AND handler, whose table entry replaces
\* ADD's: reg[a] := reg[a] & reg[b], and no opcode dispatches to ADD.
C8_AndWins ==
    /\ (Ticked /\ Fetched(Prev) = Num(179) /\ OperandA(Prev) \in Regs /\ OperandB(Prev) \in Regs)
       => /\ Instr(Prev) = "AND"
          /\ Get(reg, OperandA(Prev)) =
               Num(AndInt(Get(Prev.reg, OperandA(Prev))[1], Get(Prev.reg, OperandB(Prev))[1]))
    /\ ~Executed("ADD")

C8_Witness ==
    /\ Ticked
    /\ Fetched(Prev) = Num(179)
    /\ OperandA(Prev) = Num(0)
    /\ OperandB(Prev) = Num(1)
    /\ Get(Prev.reg, Num(0)) = Num(3)
    /\ Get(Prev.reg, Num(1)) = Num(200)
    /\ Get(reg, Num(0)) = Num(0)

\* C9: LDI R0,8; LDI R1,9; MUL R0,R1; PRN R0; HLT logs exactly one value, 72,
\* and has halted after its fifth tick.
C9_MulProgramPrints72 ==
    program = MulProgram
    => /\ stdout \in {<<>>, <<Num(72)>>}
       /\ stderr = <<>>
       /\ ticks <= 5
       /\ ticks = 5 <=> clock = "cleared"
       /\ clock = "cleared" => stdout = <<Num(72)>> /\ Executed("HLT")

C9_Witness ==
    /\ program = MulProgram
    /\ clock = "cleared"
    /\ stdout = <<Num(72)>>

\* C10: LDI R0,5; PUSH R0; LDI R0,0; POP R0; PRN R0; HLT logs the value 5.
C10_StackProgramPrints5 ==
    program = StackProgram
    => /\ stdout \in {<<>>, <<Num(5)>>}
       /\ ticks <= 6
       /\ ticks >= 5 => stdout = <<Num(5)>>
       /\ ticks = 6 => clock = "cleared"

C10_Witness ==
    /\ program = StackProgram
    /\ Executed("HLT")
    /\ stdout = <<Num(5)>>
    /\ Get(hist[2].reg, Num(0)) = Num(5)

\* The stack pointer of a processor state.
StackPointer(s) == Get(s.reg, Num(SP))

\* C11: POP r, r # 7, leaves reg[r] = the memory byte at the SP before the
\* POP and SP = that SP + 1.
C11_PopReadsThenIncrements ==
    (Executed("POP") /\ OperandA(Prev) \in Regs \ {Num(SP)})
    => /\ Get(reg, OperandA(Prev)) = RAM_read(Prev.mem, StackPointer(Prev))
       /\ StackPointer(Cur) = Plus(StackPointer(Prev), Num(1))

\* C12: PUSH r, r # 7, leaves SP = the SP before - 1 and memory[SP] = reg[r];
\* every other memory cell and every register other than SP is unchanged.
Addresses(m) == {Num(i) : i \in 0 .. m.size - 1} \cup DOMAIN m.cells

C12_PushFrame ==
    (Executed("PUSH") /\ OperandA(Prev) \in Regs \ {Num(SP)})
    => /\ StackPointer(Cur) = Minus(StackPointer(Prev), Num(1))
       /\ RAM_read(mem, StackPointer(Cur)) = Get(Prev.reg, OperandA(Prev))
       /\ mem.size = Prev.mem.size
       /\ \A k \in (Addresses(mem) \cup Addresses(Prev.mem)) \ {StackPointer(Cur)} :
             RAM_read(mem, k) = RAM_read(Prev.mem, k)
       /\ DOMAIN reg = DOMAIN Prev.reg
       /\ \A r \in DOMAIN reg \ {Num(SP)} : reg[r] = Prev.reg[r]

\* A PUSH of a nonzero value onto a stack that already holds one.
C12_Witness ==
    /\ Executed("PUSH")
    /\ OperandA(Prev) = Num(0)
    /\ Get(Prev.reg, Num(0)) = Num(6)
    /\ StackPointer(Prev) = Num(243)
    /\ StackPointer(Cur) = Num(242)
    /\ RAM_read(mem, Num(242)) = Num(6)
    /\ RAM_read(mem, Num(243)) = Num(5)

\* C13: CALL r at program counter p, r in 0..7 and reg[r] any number (0
\* included), pushes p + 2 (SP one lower, memory[SP] = p + 2) and leaves
\* PC = reg[r]; the default advance is not applied.
C13_CallPushesAndJumps ==
    (/\ Executed("CALL")
     /\ OperandA(Prev) \in Regs
     /\ IsNum(Get(reg, OperandA(Prev))))
    => /\ StackPointer(Cur) = Minus(StackPointer(Prev), Num(1))
       /\ RAM_read(mem, StackPointer(Cur)) = Plus(Prev.PC, Num(2))
       /\ PC = Get(reg, OperandA(Prev))

\* CALL R0 with R0 = 0, from address 6.
C13_Witness ==
    /\ Executed("CALL")
    /\ OperandA(Prev) = Num(0)
    /\ Prev.PC = Num(6)
    /\ Get(Prev.reg, Num(0)) = Num(0)
    /\ PC = Num(0)
    /\ RAM_read(mem, StackPointer(Cur)) = Num(8)

\* C14: after a CALL and its matching RET (everything in between balanced)
\* SP is what it was immediately before the CALL.
C14_CallRetRestoresSP ==
    (matched.kind = "call" /\ matched.ok) => StackPointer(Cur) = matched.sp

\* C15: every tick that does not dispatch CMP (a failing DIV or MOD, HLT,
\* PUSH, POP, CALL, RET and an unknown opcode included) leaves FL as it was.
C15_FlagsPersist == (Ticked /\ Instr(Prev) # "CMP") => FL = Prev.FL

\* A set flag has survived a failing DIV.
C15_Witness ==
    /\ DivModByZero
    /\ EqualFlag(Prev.FL)
    /\ EqualFlag(FL)
    /\ stderr # <<>>

\* C16: the Greater-Than and Less-Than bits are never set: FL is 0 or 1.
C16_OnlyEqualBit ==
    /\ FL \in {Num(0), Num(1)}
    /\ BitAnd(FL, Num(FL_GT)) = Num(0)
    /\ BitAnd(FL, Num(FL_LT)) = Num(0)

\* The flag has been set by one CMP and cleared by the next.
C16_Witness ==
    /\ Len(hist) >= 2
    /\ Executed("CMP")
    /\ Instr(hist[2]) = "CMP"
    /\ Prev.FL = Num(1)
    /\ FL = Num(0)
    /\ ticks = 4

\* C17: the register file has exactly the keys 0..7: no instruction creates a
\* register outside them.
C17_EightRegisters == DOMAIN reg = Regs

\* C18 (under AluSpec): ADD, SUB, MUL, INC and DEC store the exact integer
\* result in regA, not its value modulo 256.
Exact(op, x, y) ==
    CASE op = "ADD" -> x + y
      [] op = "SUB" -> x - y
      [] op = "MUL" -> x * y
      [] op = "INC" -> x + 1
      [] op = "DEC" -> x - 1

C18_NoWraparound ==
    call.op \in {"ADD", "SUB", "MUL", "INC", "DEC"}
    => /\ Get(reg, call.regA) =
            Num(Exact(call.op, Get(Prev.reg, call.regA)[1], Get(Prev.reg, call.regB)[1]))
       /\ \A r \in Regs \ {call.regA} : Get(reg, r) = Get(Prev.reg, r)

\* ADD of 200 and 100 has stored 300.
C18_Witness ==
    /\ call = [op |-> "ADD", regA |-> Num(0), regB |-> Num(1)]
    /\ Get(Prev.reg, Num(0)) = Num(200)
    /\ Get(Prev.reg, Num(1)) = Num(100)
    /\ Get(reg, Num(0)) = Num(300)

\* C19: a tick that fetches an opcode without a handler changes IR only: PC,
\* the registers, FL and memory are as before, so that another tick() would
\* fetch and report the same opcode at the same PC.
C19_UnknownOpcodeChangesOnlyIR ==
    Executed("undefined")
    => /\ PC = Prev.PC
       /\ reg = Prev.reg
       /\ FL = Prev.FL
       /\ mem = Prev.mem
       /\ IR = Fetched(Prev)
       /\ tick(Cur).PC = PC
       /\ tick(Cur).IR = IR
       /\ tick(Cur).stderr = Append(stderr, <<"Unknown opcode", Fetched(Prev)>>)

\* 0xFF was fetched at address 3 with the Equal flag set.
C19_Witness ==
    /\ Executed("undefined")
    /\ IR = Num(255)
    /\ Prev.IR # IR
    /\ PC = Num(3)
    /\ FL = Num(1)

\* C20 (under LiveSpec): a clock-driven run in which no CALL or RET executes
\* stops: PC strictly increases on every executed instruction, and the clock
\* is eventually cleared, by HLT, by a DIV or MOD with divisor 0 or by the
\* fetch of an unknown opcode (a fetch past the end of memory included).
StoppedByDivisor ==
    /\ Ticked
    /\ Instr(Prev) \in {"DIV", "MOD"}
    /\ StrictEquals(Get(Prev.reg, OperandB(Prev)), Num(0))

C20_RunStops ==
    /\ [][(ticks' # ticks /\ Instr(Cur) # "undefined")
            => (IsInt(PC) /\ IsInt(PC') /\ PC'[1] > PC[1])]_vars
    /\ [](clock = "cleared" => (Executed("HLT") \/ StoppedByDivisor \/ Executed("undefined")))
    /\ <>(clock = "cleared" \/ (clock = "running" /\ Instr(Cur) \in {"CALL", "RET"}))

\* The run fetched past the end of memory and stopped there.
C20_Witness ==
    /\ Executed("undefined")
    /\ Prev.PC = Num(Prev.mem.size)
    /\ Fetched(Prev) = undefined
    /\ clock = "cleared"

====
